---- MODULE Spec2Model ----
(***************************************************************************)
(* download_cisa_kev.py: download the CISA KEV JSON feed with bounded      *)
(* retries and a certifi fallback, then parse it and write it to a file.   *)
(*                                                                         *)
(* One run of main() is modelled: the command line (args) and the          *)
(* environment (the output path, the importability of certifi, what each   *)
(* connection attempt and the final write deliver) are chosen              *)
(* nondeterministically; log, stderr, stdout and exits record what the     *)
(* run did.  ssl.create_default_context is taken to succeed (the CA file   *)
(* named on the command line, when there is one, is a loadable bundle).    *)
(***************************************************************************)
EXTENDS Integers, Sequences, FiniteSets, TLC

(* Largest value of --retries explored for whole runs of main(); the       *)
(* smallest is -1.                                                         *)
MaxRetries == 2

(* Largest value of `retries` explored for a call of download() on its     *)
(* own.                                                                    *)
MaxDownloadRetries == 3

(* download(backoff=1.5): the backoff in half seconds.                     *)
BACKOFF_HALVES == 3

(* ------------------------------------------------------------------ *)
(* Text: the descriptions of exceptions, as sequences of characters.  *)
(* ------------------------------------------------------------------ *)

TextIds ==
    {"T_EMPTY", "T_UPPER", "T_LOWER", "T_CERT",
     "T_MIXED", "T_SNAKE", "T_PREFIX", "T_BADRECORD",
     "T_TIMEOUT", "T_NOTFOUND", "T_CREATED", "T_NOCONTENT",
     "T_RAISE_NONE", "T_NO_MODULE"}

Description(id) ==
    CASE id = "T_EMPTY" ->
         <<>>
      [] id = "T_UPPER" ->
         <<"[","S","S","L",":"," ","C","E","R","T","I","F","I","C","A","T","E","_","V","E","R","I","F","Y","_","F","A","I","L","E","D","]">>
      [] id = "T_LOWER" ->
         <<"c","e","r","t","i","f","i","c","a","t","e"," ","v","e","r","i","f","y"," ","f","a","i","l","e","d"," ","(","_","s","s","l",".","c",")">>
      [] id = "T_CERT" ->
         <<"[","S","S","L",":"," ","C","E","R","T","I","F","I","C","A","T","E","_","V","E","R","I","F","Y","_","F","A","I","L","E","D","]"," ","c","e","r","t","i","f","i","c","a","t","e"," ","v","e","r","i","f","y"," ","f","a","i","l","e","d">>
      [] id = "T_MIXED" ->
         <<"C","e","r","t","i","f","i","c","a","t","e"," ","V","e","r","i","f","y"," ","F","a","i","l","e","d">>
      [] id = "T_SNAKE" ->
         <<"c","e","r","t","i","f","i","c","a","t","e","_","v","e","r","i","f","y","_","f","a","i","l","e","d">>
      [] id = "T_PREFIX" ->
         <<"c","e","r","t","i","f","i","c","a","t","e"," ","v","e","r","i","f","y">>
      [] id = "T_BADRECORD" ->
         <<"[","S","S","L",":"," ","D","E","C","R","Y","P","T","I","O","N","_","F","A","I","L","E","D","_","O","R","_","B","A","D","_","R","E","C","O","R","D","_","M","A","C","]">>
      [] id = "T_TIMEOUT" ->
         <<"t","i","m","e","d"," ","o","u","t">>
      [] id = "T_NOTFOUND" ->
         <<"N","o","t"," ","F","o","u","n","d">>
      [] id = "T_CREATED" ->
         <<"C","r","e","a","t","e","d">>
      [] id = "T_NOCONTENT" ->
         <<"N","o"," ","C","o","n","t","e","n","t">>
      [] id = "T_RAISE_NONE" ->
         <<"e","x","c","e","p","t","i","o","n","s"," ","m","u","s","t"," ","d","e","r","i","v","e"," ","f","r","o","m"," ","B","a","s","e","E","x","c","e","p","t","i","o","n">>
      [] id = "T_NO_MODULE" ->
         <<"N","o"," ","m","o","d","u","l","e"," ","n","a","m","e","d"," ","'","c","e","r","t","i","f","i","'">>

(* The two literals main() looks for in str(e.reason).                     *)
INDICATOR_UPPER ==
    <<"C","E","R","T","I","F","I","C","A","T","E","_","V","E","R","I","F","Y","_","F","A","I","L","E","D">>

INDICATOR_LOWER ==
    <<"c","e","r","t","i","f","i","c","a","t","e"," ","v","e","r","i","f","y"," ","f","a","i","l","e","d">>

(* Python's `needle in haystack` on str: a contiguous, case-sensitive      *)
(* occurrence.                                                             *)
Contains(haystack, needle) ==
    \E i \in 0..(Len(haystack) - Len(needle)) :
        SubSeq(haystack, i + 1, i + Len(needle)) = needle

UpperAlpha ==
    <<"A","B","C","D","E","F","G","H","I","J","K","L","M","N","O","P","Q","R","S","T","U","V","W","X","Y","Z">>

LowerAlpha ==
    <<"a","b","c","d","e","f","g","h","i","j","k","l","m","n","o","p","q","r","s","t","u","v","w","x","y","z">>

LowerChar(c) ==
    IF \E i \in 1..Len(UpperAlpha) : UpperAlpha[i] = c
    THEN LowerAlpha[CHOOSE i \in 1..Len(UpperAlpha) : UpperAlpha[i] = c]
    ELSE c

(* str.lower()                                                             *)
ToLower(s) == [i \in 1..Len(s) |-> LowerChar(s[i])]

(* Python truthiness of a str or None argument ("None" stands for None).   *)
Truthy(s) == s \notin {"None", ""}

(* ------------------------------------------------------------------ *)
(* Exceptions, responses and what one connection attempt delivers.    *)
(* ------------------------------------------------------------------ *)

(* An exception: its class and the text of str(e) / str(e.reason).         *)
Exc(cls, text) == [cls |-> cls, text |-> text]

(* last_exc = None                                                         *)
NoneExc == Exc("None", "T_EMPTY")

(* isinstance(e, base) for the classes that occur: SSLCertVerification-    *)
(* Error derives from SSLError, HTTPError from URLError.                   *)
IsInstance(e, base) ==
    \/ e.cls = base
    \/ e.cls = "SSLCertVerificationError" /\ base = "SSLError"
    \/ e.cls = "HTTPError" /\ base = "URLError"

(* What urlopen()/resp.read() raise in the runs explored: a verification   *)
(* failure wrapped in URLError, an SSL error that is not one (raised       *)
(* unwrapped while the response is read), a timeout wrapped in URLError,   *)
(* and the HTTPError urllib raises itself for a 404.                       *)
AttemptExceptions ==
    { Exc("URLError", "T_CERT"),
      Exc("SSLError", "T_BADRECORD"),
      Exc("URLError", "T_TIMEOUT"),
      Exc("HTTPError", "T_NOTFOUND") }

(* The valid and invalid bodies a 200 response carries.                    *)
Bodies == {"B_JSON1", "B_JSON2", "B_NOTJSON", "B_BADUTF8"}

(* A response urlopen() returns: it raises HTTPError itself for the        *)
(* statuses outside 2xx, so these are all 2xx.                             *)
Responses ==
    [status : {200}, body : Bodies]
        \cup { [status |-> 201, body |-> "B_JSON1"],
               [status |-> 204, body |-> "B_EMPTY"] }

ReasonPhrase(status) ==
    CASE status = 201 -> "T_CREATED"
      [] status = 204 -> "T_NOCONTENT"
      [] OTHER -> "T_EMPTY"

Raised(e) == [type |-> "exc", exc |-> e, status |-> 0, body |-> "None"]

Returned(r) ==
    [type |-> "resp", exc |-> NoneExc, status |-> r.status, body |-> r.body]

(* An attempt that never ends: urlopen without its timeout.                *)
Outcomes_NeverEnds == { }

(* What one attempt delivers when it ends.                                 *)
Outcomes ==
    { Raised(e) : e \in AttemptExceptions } \cup { Returned(r) : r \in Responses }

(* ------------------------------------------------------------------ *)
(* The decisions of download() and main().                            *)
(* ------------------------------------------------------------------ *)

BuildCtx_IgnoreInsecure(insecure_, cafile_) ==
    IF Truthy(cafile_)
    THEN [kind |-> "context", check_hostname |-> TRUE, verify |-> TRUE,
          ca |-> cafile_]
    ELSE IF insecure_
    THEN [kind |-> "context", check_hostname |-> FALSE, verify |-> FALSE,
          ca |-> "platform"]
    ELSE [kind |-> "None", check_hostname |-> TRUE, verify |-> TRUE,
          ca |-> "platform"]

BuildCtx_UnverifiedDefault(insecure_, cafile_) ==
    IF insecure_ \/ ~Truthy(cafile_)
    THEN [kind |-> "context", check_hostname |-> FALSE, verify |-> FALSE,
          ca |-> "platform"]
    ELSE [kind |-> "context", check_hostname |-> TRUE, verify |-> TRUE,
          ca |-> cafile_]

(* The SSL context download() builds; kind "None" is ctx = None, with      *)
(* which urlopen verifies against the platform's trust store.              *)
BuildCtx(insecure_, cafile_) ==
    IF insecure_
    THEN [kind |-> "context", check_hostname |-> FALSE, verify |-> FALSE,
          ca |-> "platform"]
    ELSE IF Truthy(cafile_)
    THEN [kind |-> "context", check_hostname |-> TRUE, verify |-> TRUE,
          ca |-> cafile_]
    ELSE [kind |-> "None", check_hostname |-> TRUE, verify |-> TRUE,
          ca |-> "platform"]

StatusOk_Any2xx(status) == status >= 200 /\ status < 300

(* getattr(resp, 'status', 200) != 200 raises; only 200 returns.           *)
StatusOk(status) == status = 200

IsLastAttempt_OffByOne(attempt_, retries_) == attempt_ = retries_ - 1

(* if attempt == retries: break                                            *)
IsLastAttempt(attempt_, retries_) == attempt_ = retries_

SleepDuration_PreviousAttempt(attempt_) == BACKOFF_HALVES * (attempt_ - 1)

(* time.sleep(backoff * attempt), in half seconds.                         *)
SleepDuration(attempt_) == BACKOFF_HALVES * attempt_

DestGuard_DroppedNot(exists_, force_) == exists_ /\ force_

(* if os.path.exists(outpath) and not args.force                           *)
DestGuard(exists_, force_) == exists_ /\ ~force_

IsSslErr_TextOnly(e_) ==
    /\ IsInstance(e_, "URLError")
    /\ Len(Description(e_.text)) > 0
    /\ \/ Contains(Description(e_.text), INDICATOR_UPPER)
       \/ Contains(Description(e_.text), INDICATOR_LOWER)

(* is_ssl_err: any ssl.SSLError, or a URLError with a non-empty reason     *)
(* whose text holds one of the two literals.                               *)
IsSslErr(e_) ==
    \/ IsInstance(e_, "SSLError")
    \/ /\ IsInstance(e_, "URLError")
       /\ Len(Description(e_.text)) > 0
       /\ \/ Contains(Description(e_.text), INDICATOR_UPPER)
          \/ Contains(Description(e_.text), INDICATOR_LOWER)

FallbackEligible_IgnoreFlags(is_ssl_, insecure_, cafile_) == is_ssl_

FallbackEligible_DroppedNot(is_ssl_, insecure_, cafile_) ==
    is_ssl_ /\ insecure_ /\ ~Truthy(cafile_)

(* if is_ssl_err and not args.insecure and not args.cafile                 *)
FallbackEligible(is_ssl_, insecure_, cafile_) ==
    is_ssl_ /\ ~insecure_ /\ ~Truthy(cafile_)

(* certifi.where()                                                         *)
CERTIFI_WHERE == "certifi/cacert.pem"

(* raw.decode("utf-8") followed by json.loads                              *)
JsonLoadable(body) == body \in {"B_JSON1", "B_JSON2"}

JsonLoads(body) ==
    CASE body = "B_JSON1" -> "obj1"
      [] body = "B_JSON2" -> "obj2"
      [] OTHER -> "None"

(* json.dump(parsed, f, indent=2, ensure_ascii=False)                      *)
JsonDump(obj) ==
    CASE obj = "obj1" -> "pretty(obj1)"
      [] obj = "obj2" -> "pretty(obj2)"
      [] OTHER -> "None"

EXIT_OK == 0

EXIT_DEST_EXISTS == 1

EXIT_DOWNLOAD == 2

EXIT_WRITE_AsDownload == EXIT_DOWNLOAD

EXIT_WRITE == 4

EXIT_JSON_AsWrite == EXIT_WRITE

EXIT_JSON == 3

(* ------------------------------------------------------------------ *)
(* State.                                                             *)
(* ------------------------------------------------------------------ *)

VARIABLES
    force,        \* args.force
    retries,      \* args.retries
    insecure,     \* args.insecure
    cafile,       \* args.cafile ("None" when the option is absent)
    certifi_ok,   \* whether `import certifi` succeeds
    file,         \* the file at outpath: "absent", "old", "truncated", or text
    pc,           \* where main() is
    dpc,          \* where download() is: idle, loop, sleep, raise
    ctx,          \* download(): ctx
    attempt,      \* download(): attempt
    last_exc,     \* download(): last_exc
    raw,          \* main(): raw
    parsed,       \* main(): parsed
    e,            \* main(): the exception of the primary download
    e2,           \* main(): the exception of the certifi fallback
    is_ssl_err,   \* main(): is_ssl_err
    log,          \* the calls of download(), attempts and sleeps, in order
    stderr,       \* the diagnostics printed to sys.stderr, in order
    stdout,       \* the lines printed to sys.stdout
    exits         \* the exit statuses the process ended with

vars ==
    << force, retries, insecure, cafile, certifi_ok, file, pc, dpc, ctx,
       attempt, last_exc, raw, parsed, e, e2, is_ssl_err, log, stderr,
       stdout, exits >>

argVars == << force, retries, insecure, cafile, certifi_ok >>

frameVars == << dpc, ctx, attempt, last_exc >>

(* os.path.exists(outpath)                                                 *)
PathExists == file # "absent"

NoCtx == BuildCtx(FALSE, "None")

AttemptEvent(seq, n, c, out) ==
    [type |-> "attempt", seq |-> seq, n |-> n, ctx |-> c, out |-> out,
     dur |-> 0]

CallEvent(seq, c) ==
    [type |-> "call", seq |-> seq, n |-> 0, ctx |-> c,
     out |-> Raised(NoneExc), dur |-> 0]

SleepEvent(seq, n, d) ==
    [type |-> "sleep", seq |-> seq, n |-> n, ctx |-> NoCtx,
     out |-> Raised(NoneExc), dur |-> d]

Msg(kind, exc) == [msg |-> kind, exc |-> exc]

(* The state when main() is entered, for every command line and            *)
(* environment explored.                                                   *)
Init ==
    /\ force \in BOOLEAN
    /\ retries \in -1..MaxRetries
    /\ insecure \in BOOLEAN
    /\ cafile \in {"None", "", "ca.pem"}
    /\ certifi_ok \in BOOLEAN
    /\ file \in {"absent", "old"}
    /\ pc = "start"
    /\ dpc = "idle"
    /\ ctx = NoCtx
    /\ attempt = 0
    /\ last_exc = NoneExc
    /\ raw = "None"
    /\ parsed = "None"
    /\ e = NoneExc
    /\ e2 = NoneExc
    /\ is_ssl_err = FALSE
    /\ log = << >>
    /\ stderr = << >>
    /\ stdout = << >>
    /\ exits = << >>

(* sys.exit(code), or main() returning (code 0).                           *)
Exit(code) ==
    /\ exits' = Append(exits, code)
    /\ pc' = "done"

(* ------------------------------------------------------------------ *)
(* main(): the destination guard.                                     *)
(* ------------------------------------------------------------------ *)

CheckDest ==
    /\ pc = "start"
    /\ IF DestGuard(PathExists, force)
       THEN /\ stderr' = Append(stderr, Msg("already_exists", NoneExc))
            /\ Exit(EXIT_DEST_EXISTS)
       ELSE /\ pc' = "call_primary"
            /\ UNCHANGED << stderr, exits >>
    /\ UNCHANGED << argVars, frameVars, file, raw, parsed, e, e2,
                    is_ssl_err, log, stdout >>

(* ------------------------------------------------------------------ *)
(* download()                                                         *)
(* ------------------------------------------------------------------ *)

(* Entry of download(url, retries, cafile, insecure) up to the first test  *)
(* of the for loop.                                                        *)
DownloadEntry(seq, cafile_, insecure_) ==
    /\ log' = Append(log, CallEvent(seq, BuildCtx(insecure_, cafile_)))
    /\ last_exc' = NoneExc
    /\ ctx' = BuildCtx(insecure_, cafile_)
    /\ attempt' = 1
    /\ dpc' = IF 1 <= retries THEN "loop" ELSE "raise"

BeginPrimary ==
    /\ pc = "call_primary"
    /\ DownloadEntry("primary", cafile, insecure)
    /\ pc' = "primary"
    /\ UNCHANGED << argVars, file, raw, parsed, e, e2, is_ssl_err, stderr,
                    stdout, exits >>

BeginFallback ==
    /\ pc = "call_fallback"
    /\ DownloadEntry("fallback", CERTIFI_WHERE, FALSE)
    /\ pc' = "fallback"
    /\ UNCHANGED << argVars, file, raw, parsed, e, e2, is_ssl_err, stderr,
                    stdout, exits >>

RecordFailure_KeepFirst(last_exc_, exc_) ==
    IF last_exc_ = NoneExc THEN exc_ ELSE last_exc_

(* except Exception as e: last_exc = e                                     *)
RecordFailure(last_exc_, exc_) == exc_

(* The exception a non-200 response is turned into.                        *)
StatusError(status) == Exc("HTTPError", ReasonPhrase(status))

(* One pass of the loop body: urlopen, the status test, resp.read(), and   *)
(* the except clause up to the sleep.                                      *)
Attempt ==
    /\ pc \in {"primary", "fallback"}
    /\ dpc = "loop"
    /\ \E out \in Outcomes :
        /\ log' = Append(log, AttemptEvent(pc, attempt, ctx, out))
        /\ IF out.type = "resp" /\ StatusOk(out.status)
           THEN /\ raw' = out.body
                /\ pc' = "parse"
                /\ dpc' = "idle"
                /\ UNCHANGED last_exc
           ELSE /\ last_exc' = RecordFailure(last_exc,
                                    IF out.type = "resp"
                                    THEN StatusError(out.status)
                                    ELSE out.exc)
                /\ dpc' = IF IsLastAttempt(attempt, retries)
                          THEN "raise"
                          ELSE "sleep"
                /\ UNCHANGED << raw, pc >>
    /\ UNCHANGED << argVars, file, ctx, attempt, parsed, e, e2, is_ssl_err,
                    stderr, stdout, exits >>

(* time.sleep(backoff * attempt), then the loop's next value.              *)
Sleep ==
    /\ pc \in {"primary", "fallback"}
    /\ dpc = "sleep"
    /\ log' = Append(log, SleepEvent(pc, attempt, SleepDuration(attempt)))
    /\ attempt' = attempt + 1
    /\ dpc' = IF attempt + 1 <= retries THEN "loop" ELSE "raise"
    /\ UNCHANGED << argVars, file, pc, ctx, last_exc, raw, parsed, e, e2,
                    is_ssl_err, stderr, stdout, exits >>

RaisedBy_NothingRecorded(last_exc_) == last_exc_

(* raise last_exc; `raise None` is a TypeError.                            *)
RaisedBy(last_exc_) ==
    IF last_exc_ = NoneExc
    THEN Exc("TypeError", "T_RAISE_NONE")
    ELSE last_exc_

Raise ==
    /\ pc \in {"primary", "fallback"}
    /\ dpc = "raise"
    /\ dpc' = "idle"
    /\ IF pc = "primary"
       THEN /\ e' = RaisedBy(last_exc)
            /\ pc' = "except_primary"
            /\ UNCHANGED e2
       ELSE /\ e2' = RaisedBy(last_exc)
            /\ pc' = "except_fallback"
            /\ UNCHANGED e
    /\ UNCHANGED << argVars, file, ctx, attempt, last_exc, raw, parsed,
                    is_ssl_err, log, stderr, stdout, exits >>

(* ------------------------------------------------------------------ *)
(* main(): the handlers of a failed download.                         *)
(* ------------------------------------------------------------------ *)

FallbackDiagnostics_FallbackOnly(e2_, e_) == << Msg("fallback_failed", e2_) >>

(* print("Failed using certifi fallback: {e2}"); print("Original error:    *)
(* {e}")                                                                   *)
FallbackDiagnostics(e2_, e_) ==
    << Msg("fallback_failed", e2_), Msg("original_error", e_) >>

(* except Exception as e: classify, then fall back to certifi or exit.     *)
HandlePrimaryFailure ==
    /\ pc = "except_primary"
    /\ is_ssl_err' = IsSslErr(e)
    /\ IF FallbackEligible(IsSslErr(e), insecure, cafile)
       THEN IF certifi_ok
            THEN /\ stderr' = Append(stderr, Msg("ssl_retry_certifi", NoneExc))
                 /\ pc' = "call_fallback"
                 /\ UNCHANGED << e2, exits >>
            ELSE /\ e2' = Exc("ImportError", "T_NO_MODULE")
                 /\ stderr' = stderr \o
                        FallbackDiagnostics(Exc("ImportError", "T_NO_MODULE"), e)
                 /\ Exit(EXIT_DOWNLOAD)
       ELSE /\ stderr' = Append(stderr, Msg("download_failed", e))
            /\ Exit(EXIT_DOWNLOAD)
            /\ UNCHANGED e2
    /\ UNCHANGED << argVars, frameVars, file, raw, parsed, e, log, stdout >>

(* except Exception as e2, around the fallback download.                   *)
HandleFallbackFailure ==
    /\ pc = "except_fallback"
    /\ stderr' = stderr \o FallbackDiagnostics(e2, e)
    /\ Exit(EXIT_DOWNLOAD)
    /\ UNCHANGED << argVars, frameVars, file, raw, parsed, e, e2,
                    is_ssl_err, log, stdout >>

(* ------------------------------------------------------------------ *)
(* main(): parse and write.                                           *)
(* ------------------------------------------------------------------ *)

Parse ==
    /\ pc = "parse"
    /\ IF JsonLoadable(raw)
       THEN /\ parsed' = JsonLoads(raw)
            /\ pc' = "write"
            /\ UNCHANGED << stderr, exits >>
       ELSE /\ stderr' = Append(stderr, Msg("not_valid_json", NoneExc))
            /\ Exit(EXIT_JSON)
            /\ UNCHANGED parsed
    /\ UNCHANGED << argVars, frameVars, file, raw, e, e2, is_ssl_err, log,
                    stdout >>

(* open(outpath, "w") truncates the file when it succeeds; json.dump may   *)
(* then still fail.                                                        *)
WriteResults == {"ok", "open_fails", "dump_fails"}

Write ==
    /\ pc = "write"
    /\ \E w \in WriteResults :
        IF w = "ok"
        THEN /\ file' = JsonDump(parsed)
             /\ stdout' = Append(stdout, "saved")
             /\ Exit(EXIT_OK)
             /\ UNCHANGED stderr
        ELSE /\ file' = IF w = "open_fails" THEN file ELSE "truncated"
             /\ stderr' = Append(stderr, Msg("write_failed", NoneExc))
             /\ Exit(EXIT_WRITE)
             /\ UNCHANGED stdout
    /\ UNCHANGED << argVars, frameVars, raw, parsed, e, e2, is_ssl_err, log >>

Next ==
    \/ CheckDest
    \/ BeginPrimary
    \/ BeginFallback
    \/ Attempt
    \/ Sleep
    \/ Raise
    \/ HandlePrimaryFailure
    \/ HandleFallbackFailure
    \/ Parse
    \/ Write

Spec == Init /\ [][Next]_vars

Done == pc = "done"

(* ------------------------------------------------------------------ *)
(* Reading the log.                                                   *)
(* ------------------------------------------------------------------ *)

LogIdx == 1..Len(log)

IsCall(i, seq) == log[i].type = "call" /\ log[i].seq = seq

IsAttempt(i, seq) == log[i].type = "attempt" /\ log[i].seq = seq

IsSleep(i, seq) == log[i].type = "sleep" /\ log[i].seq = seq

CallCount(seq) == Cardinality({ i \in LogIdx : IsCall(i, seq) })

AttemptCount(seq) == Cardinality({ i \in LogIdx : IsAttempt(i, seq) })

TotalAttempts == Cardinality({ i \in LogIdx : log[i].type = "attempt" })

(* What an attempt delivered was a 200 response.                           *)
Delivered200(out) == out.type = "resp" /\ out.status = 200

Seqs == {"primary", "fallback"}

(* download(seq) has raised: main() holds its exception.                   *)
HasRaised(seq) ==
    IF seq = "primary"
    THEN e # NoneExc
    ELSE e2 # NoneExc /\ e2.cls # "ImportError"

(* ------------------------------------------------------------------ *)
(* Claims.                                                            *)
(* ------------------------------------------------------------------ *)

(* C1: for every retry count N >= 1 and every trust configuration, a call  *)
(* of download() that has raised made exactly N connection attempts,       *)
(* numbered 1..N, and every one of them failed.                            *)
C1_ExactlyNAttempts ==
    \A seq \in Seqs :
        (retries >= 1 /\ HasRaised(seq)) =>
            /\ AttemptCount(seq) = retries
            /\ { log[i].n : i \in { j \in LogIdx : IsAttempt(j, seq) } }
                   = 1..retries
            /\ \A i \in LogIdx : IsAttempt(i, seq) => ~Delivered200(log[i].out)

(* A download under --insecure with a CA file that failed on each of its   *)
(* two or more attempts.                                                   *)
C1_Witness ==
    /\ pc = "except_primary"
    /\ retries >= 2
    /\ insecure /\ cafile = "ca.pem"
    /\ AttemptCount("primary") = retries

(* The failure is a certificate-verification failure: the TLS library's    *)
(* verification error, or one whose text names it.                         *)
IsVerificationFailure(x) ==
    \/ x.cls = "SSLCertVerificationError"
    \/ \E ind \in {INDICATOR_UPPER, INDICATOR_LOWER} :
           Contains(ToLower(Description(x.text)), ToLower(ind))

(* C2 as stated: when the primary download has failed with a verification  *)
(* failure that main() classified as one and neither --insecure nor        *)
(* --cafile was given, exactly one fallback download ran, with at most     *)
(* `retries` attempts.                                                     *)
C2_AlwaysOneFallback ==
    (/\ Done /\ e # NoneExc /\ is_ssl_err /\ IsVerificationFailure(e)
     /\ ~insecure /\ cafile = "None") =>
        /\ CallCount("fallback") = 1
        /\ AttemptCount("fallback") <= retries

(* C2, amended: in that case exactly one fallback download ran when        *)
(* certifi can be imported, under a verifying context rooted at certifi's  *)
(* bundle and with between 1 and `retries` attempts; when certifi cannot   *)
(* be imported no fallback download ran.  No run has more than one.        *)
C2_OneFallbackIfCertifi ==
    /\ CallCount("fallback") <= 1
    /\ (Done /\ e # NoneExc /\ is_ssl_err /\ ~insecure /\ cafile = "None") =>
          IF certifi_ok
          THEN /\ CallCount("fallback") = 1
               /\ AttemptCount("fallback") \in 1..retries
               /\ \A i \in LogIdx :
                      log[i].seq = "fallback" /\ log[i].type # "sleep" =>
                          /\ log[i].ctx.ca = "certifi/cacert.pem"
                          /\ log[i].ctx.verify
          ELSE /\ CallCount("fallback") = 0
               /\ AttemptCount("fallback") = 0

(* A run whose fallback download used all of its two attempts.             *)
C2_Witness ==
    /\ Done /\ e # NoneExc /\ is_ssl_err /\ ~insecure /\ cafile = "None"
    /\ certifi_ok
    /\ retries = 2
    /\ CallCount("fallback") = 1
    /\ AttemptCount("fallback") = 2


(* C3: when the primary download has failed with a failure that is not a   *)
(* certificate-verification failure, no fallback download is made and the *)
(* run ends with exit code 2.                                              *)
C3_NoFallbackForOtherFailures ==
    (Done /\ e # NoneExc /\ ~IsVerificationFailure(e)) =>
        /\ CallCount("fallback") = 0
        /\ exits = << 2 >>

(* C4: when the output path exists and --force is absent, no call of       *)
(* download(), attempt or sleep is ever made, and the run ends with exit   *)
(* code 1, whatever the other options are.                                 *)
C4_GuardBlocksNetwork ==
    (file = "old" /\ ~force) =>
        /\ log = << >>
        /\ pc \in {"start", "done"}
        /\ Done => exits = << 1 >>

(* A run stopped by the guard although every other option was given.      *)
C4_Witness ==
    /\ Done /\ file = "old" /\ ~force
    /\ insecure /\ cafile = "ca.pem" /\ retries = 2
    /\ exits = << 1 >>
    /\ log = << >>

(* The stages of a run, read from what it left behind.                     *)
Blocked == file = "old" /\ ~force

GotBody == \E i \in LogIdx : log[i].type = "attempt" /\ Delivered200(log[i].out)

ValidBody ==
    \E i \in LogIdx :
        /\ log[i].type = "attempt" /\ Delivered200(log[i].out)
        /\ log[i].out.body \in {"B_JSON1", "B_JSON2"}

Written == file \in {"pretty(obj1)", "pretty(obj2)"}

(* C5: a run has ended iff it has an exit code, it has exactly one, and    *)
(* the code is that of the first failing stage: 1 iff the destination      *)
(* exists without --force, 2 iff no download delivered a body, 3 iff the   *)
(* body is not UTF-8 JSON, 4 iff the write failed, 0 iff the file was      *)
(* written.                                                                *)
C5_ExitCodeByStage ==
    /\ (exits # << >>) <=> Done
    /\ Done =>
        /\ Len(exits) = 1
        /\ (exits[1] = 1) <=> Blocked
        /\ (exits[1] = 2) <=> (~Blocked /\ ~GotBody)
        /\ (exits[1] = 3) <=> (GotBody /\ ~ValidBody)
        /\ (exits[1] = 4) <=> (GotBody /\ ValidBody /\ ~Written)
        /\ (exits[1] = 0) <=> (GotBody /\ ValidBody /\ Written)

(* A run whose fallback download delivered bytes that are not UTF-8.       *)
C5_Witness ==
    /\ Done /\ exits = << 3 >>
    /\ raw = "B_BADUTF8"
    /\ CallCount("fallback") = 1

(* ------------------------------------------------------------------ *)
(* The classification of a failure, on its own: main() has just        *)
(* caught e from a primary download of one attempt, for every class    *)
(* and text of e.                                                      *)
(* ------------------------------------------------------------------ *)

ExceptionClasses ==
    {"SSLError", "SSLCertVerificationError", "URLError", "HTTPError",
     "TimeoutError"}

AllExceptions == { Exc(c, t) : c \in ExceptionClasses, t \in TextIds }

InitClassify ==
    /\ force = FALSE
    /\ retries = 1
    /\ insecure \in BOOLEAN
    /\ cafile \in {"None", "", "ca.pem"}
    /\ certifi_ok \in BOOLEAN
    /\ file = "absent"
    /\ pc = "except_primary"
    /\ dpc = "idle"
    /\ ctx = BuildCtx(insecure, cafile)
    /\ attempt = 1
    /\ e \in AllExceptions
    /\ last_exc = e
    /\ raw = "None"
    /\ parsed = "None"
    /\ e2 = NoneExc
    /\ is_ssl_err = FALSE
    /\ log = << CallEvent("primary", ctx),
                AttemptEvent("primary", 1, ctx, Raised(e)) >>
    /\ stderr = << >>
    /\ stdout = << >>
    /\ exits = << >>

NextClassify == HandlePrimaryFailure

SpecClassify == InitClassify /\ [][NextClassify]_vars

(* The handler of the primary failure has run.                             *)
Classified == e # NoneExc /\ pc # "except_primary" /\ pc # "primary"

InitDownload ==
    /\ force = FALSE
    /\ retries \in -1..MaxDownloadRetries
    /\ insecure \in BOOLEAN
    /\ cafile \in {"None", "", "ca.pem", CERTIFI_WHERE}
    /\ certifi_ok = TRUE
    /\ file = "absent"
    /\ pc = "call_primary"
    /\ dpc = "idle"
    /\ ctx = NoCtx
    /\ attempt = 0
    /\ last_exc = NoneExc
    /\ raw = "None"
    /\ parsed = "None"
    /\ e = NoneExc
    /\ e2 = NoneExc
    /\ is_ssl_err = FALSE
    /\ log = << >>
    /\ stderr = << >>
    /\ stdout = << >>
    /\ exits = << >>

NextDownload ==
    \/ BeginPrimary
    \/ Attempt
    \/ Sleep
    \/ Raise

SpecDownload == InitDownload /\ [][NextDownload]_vars

(* A failed attempt i was handled as a failure: nothing was returned; a    *)
(* sleep follows it while attempts remain, and none follows the last one.  *)
HandledAsFailure(i) ==
    /\ i = Len(log) =>
           /\ raw = "None"
           /\ pc \notin {"parse", "write"}
           /\ log[i].n < retries <=> (pc \in Seqs /\ dpc = "sleep")
    /\ i < Len(log) =>
           IF log[i].n < retries
           THEN IsSleep(i + 1, log[i].seq)
           ELSE log[i + 1].type = "call"

(* The attempt i ended download(): its body was returned, nothing follows. *)
ReturnedBody(i) ==
    /\ i = Len(log)
    /\ raw = log[i].out.body
    /\ dpc = "idle"
    /\ pc \notin {"primary", "fallback", "except_primary", "except_fallback"}

(* C7 as stated: every response with a 2xx status ends download() with its *)
(* body returned, and every other outcome of an attempt is handled as a    *)
(* failure.                                                                *)
C7_Every2xxSucceeds ==
    \A i \in LogIdx :
        log[i].type = "attempt" =>
            IF /\ log[i].out.type = "resp"
               /\ log[i].out.status >= 200 /\ log[i].out.status < 300
            THEN ReturnedBody(i)
            ELSE HandledAsFailure(i)

(* C7, amended: only a response with status 200 ends download() with its   *)
(* body returned; a response with any other status, 201 and 204 included,  *)
(* is handled exactly like an exception of urlopen: retried after a sleep  *)
(* while attempts remain.                                                  *)
C7_Only200Succeeds ==
    \A i \in LogIdx :
        log[i].type = "attempt" =>
            IF log[i].out.type = "resp" /\ log[i].out.status = 200
            THEN ReturnedBody(i)
            ELSE HandledAsFailure(i)

(* A 201 response was followed by a sleep, and a later 200 was returned.   *)
C7_Witness ==
    /\ \E i \in LogIdx :
           /\ log[i].type = "attempt"
           /\ log[i].out.type = "resp" /\ log[i].out.status = 201
           /\ i < Len(log) /\ IsSleep(i + 1, "primary")
    /\ log[Len(log)].type = "attempt"
    /\ Delivered200(log[Len(log)].out)
    /\ raw = "B_JSON2"

(* C8: attempts and sleeps alternate.  A sleep follows exactly the failed  *)
(* attempts n < N, lasts backoff * n, and is followed by attempt n + 1, so *)
(* attempt n > 1 is preceded by a sleep of backoff * (n - 1) and attempt 1 *)
(* by none; nothing sleeps after the last failed attempt or after a        *)
(* successful one.                                                         *)
C8_SleepsAlternate ==
    \A i \in LogIdx :
        /\ log[i].type = "sleep" =>
               /\ i > 1
               /\ IsAttempt(i - 1, log[i].seq)
               /\ ~Delivered200(log[i - 1].out)
               /\ log[i - 1].n < retries
               /\ log[i].dur = BACKOFF_HALVES * log[i - 1].n
               /\ IF i = Len(log)
                  THEN dpc = "loop" /\ attempt = log[i - 1].n + 1
                  ELSE /\ IsAttempt(i + 1, log[i].seq)
                       /\ log[i + 1].n = log[i - 1].n + 1
        /\ log[i].type = "attempt" =>
               /\ i > 1
               /\ IF log[i].n = 1
                  THEN IsCall(i - 1, log[i].seq)
                  ELSE /\ IsSleep(i - 1, log[i].seq)
                       /\ log[i - 1].dur = BACKOFF_HALVES * (log[i].n - 1)
               /\ IF ~Delivered200(log[i].out) /\ log[i].n < retries
                  THEN IF i = Len(log)
                       THEN dpc = "sleep"
                       ELSE IsSleep(i + 1, log[i].seq)
                  ELSE /\ dpc # "sleep"
                       /\ i < Len(log) => log[i + 1].type # "sleep"

(* Three failed attempts with sleeps of 1.5 s and 3 s between them.        *)
C8_Witness ==
    /\ retries = 3
    /\ Len(log) = 6
    /\ IsAttempt(2, "primary") /\ IsSleep(3, "primary") /\ log[3].dur = 3
    /\ IsAttempt(4, "primary") /\ IsSleep(5, "primary") /\ log[5].dur = 6
    /\ IsAttempt(6, "primary") /\ log[6].n = 3
    /\ pc = "except_primary"

(* C9: the context of a call of download() and of each of its attempts is  *)
(* derived with insecure first: with insecure set, verification and the    *)
(* hostname check are both off whatever cafile is; otherwise a non-empty   *)
(* cafile roots a verifying context at that file; otherwise no context is  *)
(* passed and the platform's default trust verifies.                       *)
C9_InsecureTakesPrecedence ==
    \A i \in LogIdx :
        log[i].type \in {"call", "attempt"} =>
            /\ insecure =>
                   /\ log[i].ctx.kind = "context"
                   /\ ~log[i].ctx.verify
                   /\ ~log[i].ctx.check_hostname
                   /\ log[i].ctx.ca = "platform"
            /\ (~insecure /\ cafile \notin {"None", ""}) =>
                   /\ log[i].ctx.kind = "context"
                   /\ log[i].ctx.verify
                   /\ log[i].ctx.check_hostname
                   /\ log[i].ctx.ca = cafile
            /\ (~insecure /\ cafile \in {"None", ""}) =>
                   /\ log[i].ctx.kind = "None"
                   /\ log[i].ctx.verify
                   /\ log[i].ctx.check_hostname
                   /\ log[i].ctx.ca = "platform"

(* An attempt made with verification off although a CA file was given.     *)
C9_Witness ==
    /\ insecure /\ cafile = "ca.pem"
    /\ \E i \in LogIdx :
           /\ IsAttempt(i, "primary")
           /\ ~log[i].ctx.verify /\ ~log[i].ctx.check_hostname

C11_FileUntouchedUnlessWritten ==
    [][ file' # file =>
            /\ pc = "write"
            /\ exits = << >>
            /\ exits' \in { << 0 >>, << 4 >> } ]_vars

(* A run with --force over an existing file whose two attempts were        *)
(* answered with an HTTP error: exit code 2, no fallback, the old file.    *)
C11_Witness ==
    /\ Done /\ exits = << 2 >>
    /\ force /\ file = "old"
    /\ retries = 2 /\ TotalAttempts = 2
    /\ e = Exc("HTTPError", "T_NOTFOUND")
    /\ CallCount("fallback") = 0

(* The primary download raised after attempts that all failed with a       *)
(* verification failure, under default trust.                              *)
PrimaryFailedVerification ==
    /\ ~insecure /\ cafile = "None"
    /\ e # NoneExc
    /\ \E i \in LogIdx : IsAttempt(i, "primary")
    /\ \A i \in LogIdx :
           IsAttempt(i, "primary") =>
               /\ log[i].out.type = "exc"
               /\ IsVerificationFailure(log[i].out.exc)

(* The fallback download's attempt k was answered with a 200.              *)
FallbackSucceededAt(i, k) ==
    /\ IsAttempt(i, "fallback")
    /\ log[i].n = k
    /\ Delivered200(log[i].out)

PrettyOf(body) ==
    CASE body = "B_JSON1" -> "pretty(obj1)"
      [] body = "B_JSON2" -> "pretty(obj2)"
      [] OTHER -> "no JSON"

(* C12 as stated: when all N primary attempts failed verification under    *)
(* default trust and the fallback succeeded on its attempt k, the run ends *)
(* with exit code 0, the file written from the fallback's body, after      *)
(* exactly N + k attempts.                                                 *)
C12_FallbackSuccessExitsZero ==
    \A i \in LogIdx : \A k \in 1..retries :
        (Done /\ PrimaryFailedVerification /\ FallbackSucceededAt(i, k)) =>
            /\ exits = << 0 >>
            /\ file = PrettyOf(log[i].out.body)
            /\ TotalAttempts = retries + k

(* C12, amended: in that case the bytes handed to the parser are the       *)
(* fallback's body and exactly N + k attempts were made; the run ends with *)
(* exit code 0 and the file written from that body if the body is UTF-8    *)
(* JSON and the write succeeds, with exit code 3 if the body is not UTF-8  *)
(* JSON, and with exit code 4 and no pretty-printed file if the write      *)
(* fails.                                                                  *)
C12_FallbackSuccessThenParseAndWrite ==
    \A i \in LogIdx : \A k \in 1..retries :
        (PrimaryFailedVerification /\ FallbackSucceededAt(i, k)) =>
            /\ raw = log[i].out.body
            /\ TotalAttempts = retries + k
            /\ AttemptCount("primary") = retries
            /\ Done =>
                   IF log[i].out.body \notin {"B_JSON1", "B_JSON2"}
                   THEN exits = << 3 >> /\ ~Written
                   ELSE \/ exits = << 0 >> /\ file = PrettyOf(log[i].out.body)
                        \/ exits = << 4 >> /\ ~Written

(* --retries 2, both primary attempts failed verification, the fallback    *)
(* succeeded at once: 3 attempts, exit code 0, the file written.           *)
C12_Witness ==
    /\ Done /\ retries = 2
    /\ PrimaryFailedVerification
    /\ FallbackSucceededAt(Len(log), 1)
    /\ TotalAttempts = 3
    /\ exits = << 0 >>
    /\ file = "pretty(obj2)"

(* The exception a failed attempt ended with: the one urlopen raised, or   *)
(* the HTTPError made from a response whose status is not 200.             *)
FailureOf(out) ==
    IF out.type = "exc"
    THEN out.exc
    ELSE Exc("HTTPError", ReasonPhrase(out.status))

(* The place in the log of attempt n of download(seq).                     *)
AttemptAt(seq, n) == CHOOSE i \in LogIdx : IsAttempt(i, seq) /\ log[i].n = n

(* C13: for N >= 1 the exception download() raises is exactly the failure  *)
(* of its N-th attempt, whatever the earlier attempts failed with; and     *)
(* while the call runs, last_exc is the failure of the latest failed       *)
(* attempt only.                                                           *)
C13_RaisesLastFailure ==
    /\ (retries >= 1 /\ HasRaised("primary")) =>
           e = FailureOf(log[AttemptAt("primary", retries)].out)
    /\ (retries >= 1 /\ HasRaised("fallback")) =>
           e2 = FailureOf(log[AttemptAt("fallback", retries)].out)
    /\ (pc \in Seqs /\ dpc \in {"sleep", "raise"} /\ retries >= 1) =>
           last_exc = FailureOf(log[AttemptAt(pc, attempt)].out)

(* Three attempts that failed with a verification failure, a 201 and a     *)
(* 404: the 404 is what was raised.                                        *)
C13_Witness ==
    /\ pc = "except_primary" /\ retries = 3
    /\ log[AttemptAt("primary", 1)].out = Raised(Exc("URLError", "T_CERT"))
    /\ log[AttemptAt("primary", 2)].out.status = 201
    /\ e = Exc("HTTPError", "T_NOTFOUND")

(* The fallback was eligible by main()'s own test.                         *)
EligibleRun ==
    /\ e # NoneExc /\ Classified
    /\ is_ssl_err /\ ~insecure /\ cafile \in {"None", ""}

(* C14: when the fallback is eligible and certifi cannot be imported, no   *)
(* fallback call or attempt is made; then, and when the fallback download  *)
(* itself raises, the run ends with exit code 2 and its last two           *)
(* diagnostics are two separate messages: the fallback's failure with e2   *)
(* and the primary failure with e.                                         *)
C14_BothFailuresReported ==
    /\ (EligibleRun /\ ~certifi_ok) =>
           /\ CallCount("fallback") = 0
           /\ AttemptCount("fallback") = 0
           /\ e2.cls = "ImportError"
    /\ (Done /\ EligibleRun /\ (~certifi_ok \/ HasRaised("fallback"))) =>
           /\ exits = << 2 >>
           /\ Len(stderr) >= 2
           /\ stderr[Len(stderr) - 1] = [msg |-> "fallback_failed", exc |-> e2]
           /\ stderr[Len(stderr)] = [msg |-> "original_error", exc |-> e]
           /\ e2 # NoneExc
           /\ \A j \in 1..Len(stderr) : stderr[j].msg # "download_failed"

(* A fallback download that failed with a timeout after the primary one    *)
(* failed verification: both are reported.                                 *)
C14_Witness ==
    /\ Done /\ EligibleRun /\ certifi_ok
    /\ e = Exc("URLError", "T_CERT")
    /\ e2 = Exc("URLError", "T_TIMEOUT")
    /\ exits = << 2 >>
    /\ stderr[Len(stderr)] = [msg |-> "original_error", exc |-> e]

(* C15: in every run each of the two downloads is called at most once and  *)
(* a fallback download that raised is followed by nothing but the exit;    *)
(* with N >= 1 neither download makes more than N attempts, so the run     *)
(* makes at most 2N, and it makes more than N only if the fallback was     *)
(* eligible (a classified primary failure, neither --insecure nor a CA     *)
(* file) and certifi could be imported.                                    *)
C15_AtMostOneFallback ==
    /\ CallCount("primary") <= 1
    /\ CallCount("fallback") <= 1
    /\ HasRaised("fallback") =>
           /\ pc \in {"except_fallback", "done"}
           /\ log[Len(log)].seq = "fallback"
    /\ retries >= 1 =>
           /\ AttemptCount("primary") <= retries
           /\ AttemptCount("fallback") <= retries
           /\ TotalAttempts <= 2 * retries
           /\ TotalAttempts > retries =>
                  /\ ~insecure /\ cafile \in {"None", ""}
                  /\ certifi_ok
                  /\ e.cls = "SSLError" \/ e.text = "T_CERT"
    /\ retries < 1 => TotalAttempts = 0

(* A run of 2N = 4 failed attempts.                                        *)
C15_Witness ==
    /\ Done /\ retries = 2
    /\ AttemptCount("primary") = 2 /\ AttemptCount("fallback") = 2
    /\ TotalAttempts = 4
    /\ exits = << 2 >>

SleepCount(seq) == Cardinality({ i \in LogIdx : IsSleep(i, seq) })

(* C16: an attempt k answered with a 200 is the first success and the last *)
(* event of its download and of the run: exactly k attempts and k - 1      *)
(* sleeps were made, the earlier attempts all failed, its body is what     *)
(* download() returned, and no attempt or sleep follows it, in the         *)
(* download or after it.  Nothing but such an attempt returns a body.      *)
C16_StopsAtFirstSuccess ==
    /\ raw # "None" =>
           /\ Len(log) > 0
           /\ log[Len(log)].type = "attempt"
           /\ Delivered200(log[Len(log)].out)
    /\ \A i \in LogIdx :
        (log[i].type = "attempt" /\ Delivered200(log[i].out)) =>
            /\ i = Len(log)
            /\ log[i].n \in 1..retries
            /\ AttemptCount(log[i].seq) = log[i].n
            /\ SleepCount(log[i].seq) = log[i].n - 1
            /\ \A j \in LogIdx :
                   (IsAttempt(j, log[i].seq) /\ j # i) =>
                       ~Delivered200(log[j].out)
            /\ raw = log[i].out.body
            /\ dpc = "idle"
            /\ pc \in {"parse", "write", "done"}

(* A download that failed once, slept once and succeeded at its second     *)
(* attempt, in a run that has ended.                                       *)
C16_Witness ==
    /\ Done /\ retries = 2
    /\ Len(log) > 0
    /\ IsAttempt(Len(log), "primary")
    /\ log[Len(log)].n = 2
    /\ Delivered200(log[Len(log)].out)
    /\ SleepCount("primary") = 1
    /\ raw = "B_JSON1"

(* The program is a single thread of blocking steps: one that can be taken *)
(* is taken, given that each attempt, sleep and file operation ends.       *)
FairSpec == Init /\ [][Next]_vars /\ WF_vars(Next)

(* C17: every run eventually ends, with exactly one of the exit codes 0,   *)
(* 1, 2, 3 and 4, for every retry count and every pattern of attempt       *)
(* outcomes.                                                               *)
C17_Terminates ==
    <>(Done /\ Len(exits) = 1 /\ exits[1] \in 0..4)

(* A run that ended after a failed primary download, a successful          *)
(* fallback and a failed write.                                            *)
C17_Witness ==
    /\ Done /\ exits = << 4 >>
    /\ retries = 2
    /\ TotalAttempts = 4
    /\ file = "truncated"

(* Both primary attempts of a run under default trust with certifi         *)
(* importable have failed, and the run has ended.                          *)
TwoPrimaryFailures ==
    /\ Done /\ retries = 2
    /\ ~insecure /\ cafile = "None" /\ certifi_ok
    /\ e # NoneExc
    /\ AttemptCount("primary") = 2

(* C18: when an earlier primary attempt failed with a certificate-         *)
(* verification failure and the N-th with a failure of another kind, no    *)
(* fallback is run; when an earlier one failed otherwise and the N-th with *)
(* a certificate-verification failure, the fallback is run.                *)
C18_FallbackDependsOnLastFailure ==
    TwoPrimaryFailures =>
        LET first == FailureOf(log[AttemptAt("primary", 1)].out)
            last == FailureOf(log[AttemptAt("primary", 2)].out)
        IN  /\ (IsVerificationFailure(first) /\ ~IsVerificationFailure(last))
                   => CallCount("fallback") = 0
            /\ (~IsVerificationFailure(first) /\ IsVerificationFailure(last))
                   => CallCount("fallback") = 1

(* With the classification main() makes in place of the kind of failure:   *)
(* the fallback runs iff the N-th primary failure is an ssl.SSLError or a  *)
(* URLError whose reason holds one of the two literals, whatever the first *)
(* attempt failed with.                                                    *)
Inv_FallbackIffLastIsClassified ==
    TwoPrimaryFailures =>
        LET last == FailureOf(log[AttemptAt("primary", 2)].out)
        IN  CallCount("fallback") = 1 <=>
                \/ last.cls = "SSLError"
                \/ last.cls \in {"URLError", "HTTPError"} /\ last.text = "T_CERT"

(* C19: with a retry count N <= 0 no attempt and no sleep is ever made and *)
(* no fallback is called; download() still raises (a TypeError, there      *)
(* being no recorded failure to raise), and a run that passed the          *)
(* destination guard ends with exit code 2, the one diagnostic of a failed *)
(* download, and the file as it was.                                       *)
C19_NoAttemptsStillFails ==
    retries <= 0 =>
        /\ \A i \in LogIdx : log[i].type = "call" /\ log[i].seq = "primary"
        /\ CallCount("fallback") = 0
        /\ last_exc = NoneExc
        /\ raw = "None"
        /\ file \in {"absent", "old"}
        /\ (Done /\ ~Blocked) =>
               /\ Len(log) = 1
               /\ e = Exc("TypeError", "T_RAISE_NONE")
               /\ ~is_ssl_err
               /\ exits = << 2 >>
               /\ stderr = << [msg |-> "download_failed", exc |-> e] >>

(* --retries 0 with --force over an existing file: exit code 2, no attempt, *)
(* the old file.                                                           *)
C19_Witness ==
    /\ Done /\ retries = 0
    /\ force /\ file = "old"
    /\ exits = << 2 >>
    /\ TotalAttempts = 0
    /\ e.cls = "TypeError"

(* C20: an attempt is made without certificate verification or without the *)
(* hostname check only in the primary download of a run with --insecure,   *)
(* whose attempts are all made so; every attempt of the fallback download  *)
(* verifies against certifi's bundle; and a run with --insecure never      *)
(* calls the fallback.                                                     *)
C20_UnverifiedOnlyIfInsecure ==
    /\ \A i \in LogIdx :
           log[i].type = "attempt" =>
               /\ (~log[i].ctx.verify \/ ~log[i].ctx.check_hostname) =>
                      insecure /\ log[i].seq = "primary"
               /\ (insecure /\ log[i].seq = "primary") =>
                      ~log[i].ctx.verify /\ ~log[i].ctx.check_hostname
               /\ log[i].seq = "fallback" =>
                      /\ log[i].ctx.kind = "context"
                      /\ log[i].ctx.verify /\ log[i].ctx.check_hostname
                      /\ log[i].ctx.ca = "certifi/cacert.pem"
    /\ insecure =>
           /\ CallCount("fallback") = 0
           /\ pc \notin {"call_fallback", "fallback", "except_fallback"}

(* A run without --insecure whose fallback attempts verified against       *)
(* certifi's bundle.                                                       *)
C20_Witness ==
    /\ Done /\ ~insecure /\ retries = 2
    /\ AttemptCount("fallback") = 2
    /\ \A i \in LogIdx :
           log[i].type = "attempt" => log[i].ctx.verify

====
